---- MODULE Spec2Model ----
(***************************************************************************)
(* Model of kor/prompts.py: the prompt compiler that renders a schema node *)
(* (Selection, Form, ...) and a user input into a few-shot prompt string.  *)
(*                                                                         *)
(* A Python str is modelled as a sequence of symbols.  A symbol is a       *)
(* newline, a single space, or an indivisible run of text that neither     *)
(* starts nor ends with whitespace (a literal fragment of the source or a  *)
(* value supplied by the caller).  String concatenation is \o, and an      *)
(* f-string is the concatenation of its literal fragments and of the       *)
(* interpolated values.                                                    *)
(*                                                                         *)
(* A call either returns a str or raises: a result is a record             *)
(* [status, value] with status "ok" or the name of the exception class.    *)
(***************************************************************************)
EXTENDS Integers, Sequences, FiniteSets, TLC

VARIABLES user_input, element, options, pc, result

vars == <<user_input, element, options, pc, result>>

-----------------------------------------------------------------------------
(* Bounds of the explored inputs *)

MaxOptions == 2
MaxExamples == 2
MaxElements == 2

-----------------------------------------------------------------------------
(* Strings *)

NL == "\n"
SP == " "

\* "{x}" inside an f-string: the text of the value x
Text(x) == <<x>>

\* sep.join(parts)
RECURSIVE join(_, _)
join(sep, parts) ==
    IF Len(parts) = 0 THEN <<>>
    ELSE IF Len(parts) = 1 THEN parts[1]
    ELSE parts[1] \o sep \o join(sep, Tail(parts))

IsSpace(c) == c \in {NL, SP}

\* s.strip(): drops leading and trailing whitespace
strip(s) ==
    LET keep == {i \in 1..Len(s) : ~IsSpace(s[i])}
        first == CHOOSE i \in keep : \A j \in keep : i <= j
        last == CHOOSE i \in keep : \A j \in keep : j <= i
    IN  IF keep = {} THEN <<>> ELSE SubSeq(s, first, last)

\* list.extend / concatenation of a list of lists
RECURSIVE Flatten(_)
Flatten(ss) == IF Len(ss) = 0 THEN <<>> ELSE ss[1] \o Flatten(Tail(ss))

-----------------------------------------------------------------------------
(* Results of a call *)

Return(v) == [status |-> "ok", value |-> v]
Raise(exc) == [status |-> exc, value |-> <<>>]
NoResult == [status |-> "none", value |-> <<>>]

-----------------------------------------------------------------------------
(* Schema nodes (kor.elements).  The class of an object is its kind; its   *)
(* attributes are the other fields of the record.                          *)

Option(id, description, examples) ==
    [kind |-> "Option", id |-> id, description |-> description, examples |-> examples]

Selection(id, description, opts, multiple) ==
    [kind |-> "Selection", id |-> id, description |-> description,
     options |-> opts, multiple |-> multiple]

DateInput(id, description, examples) ==
    [kind |-> "DateInput", id |-> id, description |-> description, examples |-> examples]

Number(id, description, examples) ==
    [kind |-> "Number", id |-> id, description |-> description, examples |-> examples]

TextInput(id, description, examples) ==
    [kind |-> "TextInput", id |-> id, description |-> description, examples |-> examples]

Form(description, elements) ==
    [kind |-> "Form", description |-> description, elements |-> elements]

\* a plain Python str passed where a schema node is expected
StrValue == [kind |-> "str"]

\* Python's None passed where a schema node is expected
NoneValue == [kind |-> "NoneType"]

isinstance(obj, cls) == obj.kind = cls

\* obj.attr raises AttributeError unless the object has the attribute
hasattr(obj, attr) == attr \in DOMAIN obj

\* Selection.option_ids(): the ids of the options, in option order
option_ids(selection) == [i \in 1..Len(selection.options) |-> Text(selection.options[i].id)]

\* NotImplemented is a constant, not an exception class: calling it raises
\* TypeError ('NotImplementedType' object is not callable)
NotImplemented_call == Raise("TypeError")

-----------------------------------------------------------------------------
(* _compile_option_examples *)

\* the examples tagged with the option's id instead of the id passed in
_compile_option_examples_tag_is_option_id(id, option) ==
    IF ~isinstance(option, "Option") THEN Raise("TypeError")
    ELSE LET formatted_examples ==
                 Flatten([k \in 1..Len(option.examples) |->
                     << <<"Input:", SP>> \o Text(option.examples[k]),
                        <<"Output:", SP, "<">> \o Text(option.id) \o <<">">>
                            \o Text(option.id) \o <<"</">> \o Text(option.id) \o <<">">> >>])
         IN  Return(join(<<NL>>, formatted_examples))

_compile_option_examples(id, option) ==
    IF ~isinstance(option, "Option") THEN Raise("TypeError")
    ELSE LET formatted_examples ==
                 Flatten([k \in 1..Len(option.examples) |->
                     << <<"Input:", SP>> \o Text(option.examples[k]),
                        <<"Output:", SP, "<">> \o Text(id) \o <<">">>
                            \o Text(option.id) \o <<"</">> \o Text(id) \o <<">">> >>])
         IN  Return(join(<<NL>>, formatted_examples))

\* the first exception raised while evaluating rs in order, if any
FirstFailure(rs) ==
    LET bad == {i \in 1..Len(rs) : rs[i].status # "ok"}
    IN  IF bad = {} THEN 0 ELSE CHOOSE i \in bad : \A j \in bad : i <= j

_compile_selection_examples(selection) ==
    IF ~isinstance(selection, "Selection") THEN Raise("AssertionError")
    ELSE LET rs == [i \in 1..Len(selection.options) |->
                       _compile_option_examples(selection.id, selection.options[i])]
             f == FirstFailure(rs)
         IN  IF f # 0 THEN rs[f]
             ELSE Return(join(<<NL>>, [i \in 1..Len(rs) |-> rs[i].value]))

-----------------------------------------------------------------------------
(* _generate_prompt_for_selection *)

SelectionPreamble ==
    <<"You are interacting with a user. The user has to choose one of options below. Please determine which of the options the user is selecting. The user may select one and only one option. For the output, output the option name without any whitespace, and nothing else. If you're not sure, please output <unsure>.",
      SP, NL, NL, "Options:", NL>>

\* f"<{option.id}> - {option.description}"
OptionLine(option) ==
    <<"<">> \o Text(option.id) \o <<">", SP, "-", SP>> \o Text(option.description)

\* the options block built from opts[1:], skipping the first option
OptionsBlock_skips_first(opts) ==
    IF \E i \in 1..Len(opts) : ~hasattr(opts[i], "id") \/ ~hasattr(opts[i], "description")
    THEN Raise("AttributeError")
    ELSE Return(join(<<NL>>, [i \in 1..(Len(opts) - 1) |-> OptionLine(opts[i + 1])]))

\* [f"<{option.id}> - {option.description}" for option in opts]
OptionsBlock(opts) ==
    IF \E i \in 1..Len(opts) : ~hasattr(opts[i], "id") \/ ~hasattr(opts[i], "description")
    THEN Raise("AttributeError")
    ELSE Return(join(<<NL>>, [i \in 1..Len(opts) |-> OptionLine(opts[i])]))

_generate_prompt_for_selection(u, selection) ==
    LET options_block == OptionsBlock(selection.options)
        examples_block == _compile_selection_examples(selection)
    IN  IF options_block.status # "ok" THEN options_block
        ELSE IF examples_block.status # "ok" THEN examples_block
        ELSE Return(SelectionPreamble
                    \o options_block.value \o <<NL, NL>>
                    \o examples_block.value \o <<NL>>
                    \o <<"Input:", SP>> \o Text(u) \o <<NL>>
                    \o <<"Output:", NL>>)

-----------------------------------------------------------------------------
(* _generate_prompt_for_form *)

\* the examples with text and extraction taken in the wrong order
ExtractionExamples_swapped_pair(e) ==
    join(<<NL>>, [k \in 1..Len(e.examples) |->
        <<"Input:", SP>> \o Text(e.examples[k][2]) \o <<NL>>
        \o <<"Output:", SP, "<">> \o Text(e.id) \o <<">">>
        \o Text(e.examples[k][1]) \o <<"</">> \o Text(e.id) \o <<">">>])

\* f"Input: {text}\nOutput: <{element.id}>{extraction}</{element.id}>" joined
\* over element.examples, each example a (text, extraction) pair
ExtractionExamples(e) ==
    join(<<NL>>, [k \in 1..Len(e.examples) |->
        <<"Input:", SP>> \o Text(e.examples[k][1]) \o <<NL>>
        \o <<"Output:", SP, "<">> \o Text(e.id) \o <<">">>
        \o Text(e.examples[k][2]) \o <<"</">> \o Text(e.id) \o <<">">>])

\* f"* <{element.id}>: {formatted_type} # {element.description}"
InfoLine(e, formatted_type) ==
    <<"*", SP, "<">> \o Text(e.id) \o <<">:", SP>> \o formatted_type
    \o <<SP, "#", SP>> \o Text(e.description)

\* the label without the test of element.multiple
FormattedSelectionType_ignores_multiple(e) ==
    <<"Selection[">> \o join(<<",">>, option_ids(e)) \o <<"]">>

FormattedSelectionType(e) ==
    LET values == join(<<",">>, option_ids(e))
    IN  IF e.multiple THEN <<"Multiple", SP, "Selection[">> \o values \o <<"]">>
        ELSE <<"Selection[">> \o values \o <<"]">>

\* one iteration of the loop over form.elements: what it appends to
\* elements_info and to individual_examples, or the exception it raises
FormElement(e) ==
    IF isinstance(e, "Selection") THEN
        LET ex == _compile_selection_examples(e)
        IN  [status |-> ex.status, info |-> InfoLine(e, FormattedSelectionType(e)),
             example |-> ex.value]
    ELSE IF isinstance(e, "DateInput") THEN
        [status |-> "ok", info |-> InfoLine(e, <<"Date">>), example |-> ExtractionExamples(e)]
    ELSE IF isinstance(e, "Number") THEN
        [status |-> "ok", info |-> InfoLine(e, <<"Number">>), example |-> ExtractionExamples(e)]
    ELSE IF isinstance(e, "TextInput") THEN
        [status |-> "ok", info |-> InfoLine(e, <<"Text">>), example |-> ExtractionExamples(e)]
    ELSE [status |-> NotImplemented_call.status, info |-> <<>>, example |-> <<>>]

FormTask ==
    "Your task is to parse the user input and determine to what values the user is attempting to set each component of the form. Please enclose the extracted information in HTML style tags with the tag name corresponding to the corresponding component ID. Use angle style brackets for the tags ('>' and '<'). Only output tags when you're confident about the information that was extracted from the user's query. If you can extract several pieces of relevant information from the query include use a comma to separate the tags. If the component is a Multiple Selection, then please repeat the same tag multiple times once for each relevant selected option."

FormPreamble(form) ==
    <<"You are helping a user fill out a form. The user will type information and your goal will be to parse the user's input.", NL,
      "The description of the form is:", SP, "\"">> \o Text(form.description)
    \o <<"\"Below is a list of the components showing the component ID, its type and a short description of it.", NL, NL>>

\* the trailing "Output:" with a newline after it, as the Selection prompt has
FormCue_with_newline == <<"Output:", NL>>

\* the end of the template: "Output: "
FormCue == <<"Output:", SP>>

_generate_prompt_for_form(u, form) ==
    LET rs == [i \in 1..Len(form.elements) |-> FormElement(form.elements[i])]
        f == FirstFailure(rs)
        elements_info == join(<<NL>>, [i \in 1..Len(rs) |-> rs[i].info])
        examples_block == strip(join(<<NL>>, [i \in 1..Len(rs) |-> rs[i].example]))
    IN  IF f # 0 THEN Raise(rs[f].status)
        ELSE Return(FormPreamble(form)
                    \o elements_info \o <<NL, NL>>
                    \o <<FormTask, NL, NL>>
                    \o examples_block \o <<NL>>
                    \o <<"Input:", SP>> \o Text(u) \o <<NL>>
                    \o FormCue)

-----------------------------------------------------------------------------
(* generate_prompt_for_input *)

\* the dispatch without its Selection branch
generate_prompt_for_input_no_selection_branch(u, e) ==
    IF isinstance(e, "Form") THEN _generate_prompt_for_form(u, e)
    ELSE NotImplemented_call

generate_prompt_for_input(u, e) ==
    IF isinstance(e, "Form") THEN _generate_prompt_for_form(u, e)
    ELSE IF isinstance(e, "Selection") THEN _generate_prompt_for_selection(u, e)
    ELSE NotImplemented_call

-----------------------------------------------------------------------------
(* date_block *)

\* the loop over options without its break: every example of each option
DateBlockExamples_no_break(opts) ==
    Flatten([i \in 1..Len(opts) |->
        Flatten([j \in 1..Len(opts[i].examples) |->
            << <<"Input:", SP>> \o Text(opts[i].examples[j]),
               <<"Output:", SP, "<">> \o Text(opts[i].id) \o <<">">> >>])])

\* the loop over options: the first example of each option that has one
DateBlockExamples(opts) ==
    Flatten([i \in 1..Len(opts) |->
        IF Len(opts[i].examples) = 0 THEN <<>>
        ELSE << <<"Input:", SP>> \o Text(opts[i].examples[1]),
                <<"Output:", SP, "<">> \o Text(opts[i].id) \o <<">">> >>])

date_block(u, opts) ==
    LET options_block == join(<<NL>>, [i \in 1..Len(opts) |->
                <<"<">> \o Text(opts[i].id) \o <<">", SP, "-", SP>>
                \o Text(opts[i].description)])
        formatted_examples ==
            << <<"Input:", SP, "blaheoiqwd">>, <<"Output:", SP, "<unsure>">> >>
            \o DateBlockExamples(opts)
        examples_block == join(<<NL>>, formatted_examples)
    IN  Return(SelectionPreamble
               \o options_block \o <<NL, NL>>
               \o examples_block \o <<NL>>
               \o <<"Input:", SP>> \o Text(u) \o <<NL>>
               \o <<"Output:", NL>>)

-----------------------------------------------------------------------------
(* generate_proceed_block: the template is a plain string, not an f-string, *)
(* so the text {user_input} stays in it as written                          *)

generate_proceed_block(u) ==
    Return(<<"You are interacting with a human and are trying to determine if the person is selecting to proceed (<yes/>) or cancel (<no/>). If you don't know say <unsure/>", NL,
             NL,
             "Input:", SP, "No, I need to make some changes", NL,
             "Output:", SP, "<no/>", NL,
             NL,
             "Input:", SP, "OK", NL,
             "Output:", SP, "<yes/>", NL,
             NL,
             "Input:", SP, "Yes", NL,
             "Output:", SP, "<yes/>", NL,
             NL,
             "Input:", SP, "hmmm", NL,
             "Output:", SP, "<unsure/>", NL,
             NL,
             "Input:", SP, "{user_input}", NL,
             "Output:", NL>>)

-----------------------------------------------------------------------------
(* The caller's arguments.  Schema nodes are built from small descriptions *)
(* so that every explored argument is a value a caller can construct.      *)

UserInputs == {"ok then", "yeah sure"}

PoolOptionIds == <<"yes", "no", "maybe", "skip">>

OptionDescription(id) ==
    CASE id = "yes" -> "user wants to proceed / continue"
      [] id = "no" -> "user wants to cancel"
      [] OTHER -> "user is undecided"

OptionExamplePool(id) ==
    CASE id = "yes" -> <<"Yes", "OK", "correct">>
      [] id = "no" -> <<"no", "wrong", "bad", "abort", "cancel">>
      [] OTHER -> <<"hmm", "dunno", "perhaps", "well">>

ExtractionExamplePool(kind) ==
    CASE kind = "DateInput" ->
            << <<"tomorrow", "2023-01-08">>, <<"on Jan 7th", "2023-01-07">>,
               <<"next week", "2023-01-14">>, <<"today", "2023-01-07">> >>
      [] kind = "Number" ->
            << <<"two tickets", "2">>, <<"a dozen", "12">>, <<"none", "0">>, <<"one", "1">> >>
      [] OTHER ->
            << <<"I am Bob", "Bob">>, <<"call me Al", "Al">>, <<"Eve here", "Eve">>,
               <<"it's Dan", "Dan">> >>

Prefix(s, n) == SubSeq(s, 1, IF n < Len(s) THEN n ELSE Len(s))

RECURSIVE SeqsUpTo(_, _)
SeqsUpTo(S, n) ==
    IF n = 0 THEN {<<>>}
    ELSE LET shorter == SeqsUpTo(S, n - 1)
         IN  shorter \cup {Append(q, x) : q \in shorter, x \in S}

\* what may sit in a Selection's options: Options, and values that are not
\* Options (another schema node, which has an id and a description, or a str)
OptionParams ==
    [kind : {"Option"}, id : {"yes", "no"}, nex : 0..MaxExamples]
    \cup [kind : {"DateInput", "str"}, id : {"yes"}, nex : {0}]

ValidOptionParams == {p \in OptionParams : p.kind = "Option"}

MkOption(p) ==
    CASE p.kind = "Option" ->
            Option(p.id, OptionDescription(p.id), Prefix(OptionExamplePool(p.id), p.nex))
      [] p.kind = "DateInput" -> DateInput(p.id, OptionDescription(p.id), <<>>)
      [] OTHER -> StrValue

MkOptions(ps) == [i \in 1..Len(ps) |-> MkOption(ps[i])]

\* the k-th option of a Selection placed in a Form
PoolOption(k) ==
    LET id == PoolOptionIds[((k - 1) % Len(PoolOptionIds)) + 1]
    IN  Option(id, OptionDescription(id),
               Prefix(OptionExamplePool(id), k % (MaxExamples + 1)))

\* what may sit in a Form's elements: the four supported kinds, and an Option,
\* which is a schema node of an unsupported kind
ElementParams ==
    [kind : {"Selection"}, n : 0..MaxOptions, multiple : BOOLEAN]
    \cup [kind : {"DateInput", "Number", "TextInput"}, n : 0..MaxExamples, multiple : {FALSE}]
    \cup [kind : {"Option"}, n : {1}, multiple : {FALSE}]

MkElement(p) ==
    CASE p.kind = "Selection" ->
            Selection("yn", "answer", [k \in 1..p.n |-> PoolOption(k)], p.multiple)
      [] p.kind = "DateInput" ->
            DateInput("when", "travel date", Prefix(ExtractionExamplePool(p.kind), p.n))
      [] p.kind = "Number" ->
            Number("seats", "how many", Prefix(ExtractionExamplePool(p.kind), p.n))
      [] p.kind = "TextInput" ->
            TextInput("name", "who", Prefix(ExtractionExamplePool(p.kind), p.n))
      [] OTHER -> PoolOption(1)

-----------------------------------------------------------------------------
(* State machine: the caller holds its arguments and makes one call *)

Init ==
    /\ user_input \in UserInputs
    /\ pc = "idle"
    /\ result = NoResult
    /\ \/ \E sid \in {"yn", "yes"}, ps \in SeqsUpTo(OptionParams, MaxOptions) :
             /\ element = Selection(sid, "answer", MkOptions(ps), FALSE)
             /\ options = <<>>
       \/ \E ps \in SeqsUpTo(ElementParams, MaxElements) :
             /\ element = Form("booking", [i \in 1..Len(ps) |-> MkElement(ps[i])])
             /\ options = <<>>
       \/ \E p \in ElementParams :
             /\ p.kind # "Selection"
             /\ element = MkElement(p)
             /\ options = <<>>
       \/ \E ps \in SeqsUpTo(ValidOptionParams, MaxOptions) :
             /\ element = NoneValue
             /\ options = MkOptions(ps)

Call_generate_prompt_for_selection ==
    /\ pc = "idle"
    /\ isinstance(element, "Selection")
    /\ result' = _generate_prompt_for_selection(user_input, element)
    /\ pc' = "_generate_prompt_for_selection"
    /\ UNCHANGED <<user_input, element, options>>

Call_generate_prompt_for_form ==
    /\ pc = "idle"
    /\ isinstance(element, "Form")
    /\ result' = _generate_prompt_for_form(user_input, element)
    /\ pc' = "_generate_prompt_for_form"
    /\ UNCHANGED <<user_input, element, options>>

Call_generate_prompt_for_input ==
    /\ pc = "idle"
    /\ result' = generate_prompt_for_input(user_input, element)
    /\ pc' = "generate_prompt_for_input"
    /\ UNCHANGED <<user_input, element, options>>

Call_date_block ==
    /\ pc = "idle"
    /\ result' = date_block(user_input, options)
    /\ pc' = "date_block"
    /\ UNCHANGED <<user_input, element, options>>

Call_generate_proceed_block ==
    /\ pc = "idle"
    /\ result' = generate_proceed_block(user_input)
    /\ pc' = "generate_proceed_block"
    /\ UNCHANGED <<user_input, element, options>>

Next ==
    \/ Call_generate_prompt_for_selection
    \/ Call_generate_prompt_for_form
    \/ Call_generate_prompt_for_input
    \/ Call_date_block
    \/ Call_generate_proceed_block

Spec == Init /\ [][Next]_vars

-----------------------------------------------------------------------------
(* Reading a returned prompt *)

\* s.split("\n")
RECURSIVE Lines(_)
Lines(s) ==
    LET nl == {i \in 1..Len(s) : s[i] = NL}
        k == CHOOSE i \in nl : \A j \in nl : i <= j
    IN  IF nl = {} THEN <<s>>
        ELSE <<SubSeq(s, 1, k - 1)>> \o Lines(SubSeq(s, k + 1, Len(s)))

RECURSIVE NonBlank(_)
NonBlank(ls) ==
    IF Len(ls) = 0 THEN <<>>
    ELSE IF Len(ls[1]) = 0 THEN NonBlank(Tail(ls))
    ELSE <<ls[1]>> \o NonBlank(Tail(ls))

\* the lines of ls from index k up to the first blank line
RECURSIVE RunFrom(_, _)
RunFrom(ls, k) ==
    IF k > Len(ls) \/ Len(ls[k]) = 0 THEN <<>>
    ELSE <<ls[k]>> \o RunFrom(ls, k + 1)

EndsWith(s, t) == Len(t) <= Len(s) /\ SubSeq(s, Len(s) - Len(t) + 1, Len(s)) = t

\* line a immediately followed by line b
HasPair(ls, a, b) == \E k \in 1..(Len(ls) - 1) : ls[k] = a /\ ls[k + 1] = b

IsInputLine(l) == Len(l) >= 2 /\ l[1] = "Input:" /\ l[2] = SP

InputLine(text) == <<"Input:", SP, text>>
TaggedLine(tag, content) == <<"Output:", SP, "<", tag, ">", content, "</", tag, ">">>

SelectionReturned == pc = "_generate_prompt_for_selection" /\ result.status = "ok"
FormReturned == pc = "_generate_prompt_for_form" /\ result.status = "ok"

-----------------------------------------------------------------------------
(* C1 *)

\* C1 as stated: in a returned selection prompt, every example e of every
\* option o appears as the line "Input: e" immediately followed by the line
\* "Output: <o.id>o.id</o.id>", tag name and content both the option's id.
C1_TagIsOptionId ==
    SelectionReturned =>
        \A i \in 1..Len(element.options) :
            \A j \in 1..Len(element.options[i].examples) :
                HasPair(Lines(result.value),
                        InputLine(element.options[i].examples[j]),
                        TaggedLine(element.options[i].id, element.options[i].id))

\* C1 amended: in a returned selection prompt, every example e of every
\* option o appears as the line "Input: e" immediately followed by the line
\* "Output: <S.id>o.id</S.id>": the tag name is the Selection's id and the
\* tag content is the option's id.
C1_TagIsSelectionId ==
    SelectionReturned =>
        \A i \in 1..Len(element.options) :
            \A j \in 1..Len(element.options[i].examples) :
                HasPair(Lines(result.value),
                        InputLine(element.options[i].examples[j]),
                        TaggedLine(element.id, element.options[i].id))

C1_Witness ==
    /\ SelectionReturned
    /\ \E i \in 1..Len(element.options) :
          /\ Len(element.options[i].examples) >= 2
          /\ element.options[i].id # element.id

-----------------------------------------------------------------------------
(* C2 *)

\* C2: generate_proceed_block(u) returns a prompt that ends with "Input: "
\* followed by the text of u, a newline, "Output:" and a newline, and that
\* contains the four fixed example pairs.
C2_ProceedEndsWithUserInput ==
    pc = "generate_proceed_block" =>
        /\ result.status = "ok"
        /\ EndsWith(result.value, <<NL>> \o InputLine(user_input) \o <<NL, "Output:", NL>>)
        /\ LET ls == Lines(result.value)
           IN  /\ HasPair(ls, InputLine("No, I need to make some changes"), <<"Output:", SP, "<no/>">>)
               /\ HasPair(ls, InputLine("OK"), <<"Output:", SP, "<yes/>">>)
               /\ HasPair(ls, InputLine("Yes"), <<"Output:", SP, "<yes/>">>)
               /\ HasPair(ls, InputLine("hmmm"), <<"Output:", SP, "<unsure/>">>)

-----------------------------------------------------------------------------
(* C3 *)

\* C3 as stated: a returned form prompt ends with the line "Input: u", a
\* newline and "Output:", and nothing follows that final "Output:".
C3_NothingAfterOutput ==
    FormReturned =>
        EndsWith(result.value, <<NL>> \o InputLine(user_input) \o <<NL, "Output:">>)

\* C3 amended: a returned form prompt ends with the line "Input: u", a
\* newline and "Output: ": exactly one space, and no newline, follows the
\* final "Output:".
C3_OneSpaceAfterOutput ==
    FormReturned =>
        EndsWith(result.value, <<NL>> \o InputLine(user_input) \o <<NL, "Output:", SP>>)

C3_Witness == FormReturned /\ Len(element.elements) >= 1

-----------------------------------------------------------------------------
(* C4 *)

TypeLabel(e) ==
    LET ids == join(<<",">>, [i \in 1..Len(e.options) |-> <<e.options[i].id>>])
    IN  CASE e.kind = "Selection" /\ ~e.multiple -> <<"Selection[">> \o ids \o <<"]">>
          [] e.kind = "Selection" /\ e.multiple ->
                <<"Multiple", SP, "Selection[">> \o ids \o <<"]">>
          [] e.kind = "DateInput" -> <<"Date">>
          [] e.kind = "Number" -> <<"Number">>
          [] e.kind = "TextInput" -> <<"Text">>

\* the non-blank lines between the form-description line and the task line
FieldListing(out) ==
    LET ls == Lines(out)
        t == CHOOSE k \in 1..Len(ls) : ls[k] = <<FormTask>>
    IN  NonBlank(SubSeq(ls, 3, t - 1))

\* C4: the field listing of a returned form prompt has exactly
\* len(F.elements) lines, and its i-th line is
\* "* <id>: label # description" of the i-th element, the label being
\* Selection[ids], Multiple Selection[ids], Date, Number or Text.
C4_FieldListing ==
    FormReturned =>
        LET listing == FieldListing(result.value)
        IN  /\ Len(listing) = Len(element.elements)
            /\ \A i \in 1..Len(element.elements) :
                  LET e == element.elements[i]
                  IN  listing[i] = <<"*", SP, "<", e.id, ">:", SP>> \o TypeLabel(e)
                                   \o <<SP, "#", SP, e.description>>

C4_Witness ==
    /\ FormReturned
    /\ Len(element.elements) >= 2
    /\ \E i \in 1..Len(element.elements) :
          /\ element.elements[i].kind = "Selection"
          /\ element.elements[i].multiple
          /\ Len(element.elements[i].options) >= 2
    /\ \E i \in 1..Len(element.elements) : element.elements[i].kind # "Selection"

-----------------------------------------------------------------------------
(* C5 *)

SupportedElement(e) == e.kind \in {"Selection", "DateInput", "Number", "TextInput"}

\* C5: generate_prompt_for_input on an element that is neither a Form nor a
\* Selection, and the form prompt on a Form holding an element of an
\* unsupported kind, fail with the not-implemented failure
\* (NotImplementedError) and with no failure of another kind.
C5_UnsupportedKindFailure ==
    /\ (/\ pc = "generate_prompt_for_input"
        /\ element.kind \notin {"Form", "Selection"})
            => result.status = "NotImplementedError"
    /\ (/\ pc \in {"generate_prompt_for_input", "_generate_prompt_for_form"}
        /\ element.kind = "Form"
        /\ \E i \in 1..Len(element.elements) : ~SupportedElement(element.elements[i]))
            => result.status = "NotImplementedError"

-----------------------------------------------------------------------------
(* C6 *)

\* C6: a returned selection prompt ends with the line "Input: u", a newline,
\* "Output:" and one final newline; generate_prompt_for_input gives, for a
\* Selection, what _generate_prompt_for_selection gives and, for a Form, what
\* _generate_prompt_for_form gives.
C6_SelectionCueAndDispatch ==
    /\ SelectionReturned =>
          EndsWith(result.value, <<NL>> \o InputLine(user_input) \o <<NL, "Output:", NL>>)
    /\ (pc = "generate_prompt_for_input" /\ element.kind = "Selection") =>
          /\ result = _generate_prompt_for_selection(user_input, element)
          /\ result.status = "ok" =>
                EndsWith(result.value,
                         <<NL>> \o InputLine(user_input) \o <<NL, "Output:", NL>>)
    /\ (pc = "generate_prompt_for_input" /\ element.kind = "Form") =>
          result = _generate_prompt_for_form(user_input, element)

C6_Witness ==
    /\ pc = "generate_prompt_for_input"
    /\ element.kind = "Selection"
    /\ result.status = "ok"
    /\ Len(element.options) >= 1

-----------------------------------------------------------------------------
(* C7 *)

\* C7: in a returned selection prompt the lines directly after the
\* "Options:" header, up to the first blank line, are exactly the lines
\* "<id> - description" of the options, one per option and in option order;
\* a Selection without options gets a prompt with no such line and no error.
C7_OptionsBlock ==
    /\ SelectionReturned =>
          LET ls == Lines(result.value)
              block == RunFrom(ls, 4)
          IN  /\ ls[3] = <<"Options:">>
              /\ Len(block) = Len(element.options)
              /\ \A i \in 1..Len(element.options) :
                    block[i] = <<"<", element.options[i].id, ">", SP, "-", SP,
                                 element.options[i].description>>
    /\ (pc = "_generate_prompt_for_selection" /\ Len(element.options) = 0) =>
          result.status = "ok"

C7_Witness ==
    /\ SelectionReturned
    /\ Len(element.options) >= 2
    /\ element.options[1].id # element.options[2].id

-----------------------------------------------------------------------------
(* C8 *)

IsExtraction(e) == e.kind \in {"DateInput", "Number", "TextInput"}

\* the number of examples an element contributes
ExampleCount(e) ==
    IF IsExtraction(e) THEN Len(e.examples)
    ELSE Len(Flatten([i \in 1..Len(e.options) |-> e.options[i].examples]))

RECURSIVE ExamplesBefore(_, _)
ExamplesBefore(es, i) ==
    IF i <= 1 THEN 0 ELSE ExamplesBefore(es, i - 1) + ExampleCount(es[i - 1])

\* the non-blank lines after the task line
AfterTask(out) ==
    LET ls == Lines(out)
        t == CHOOSE k \in 1..Len(ls) : ls[k] = <<FormTask>>
    IN  NonBlank(SubSeq(ls, t + 1, Len(ls)))

\* C8: in a returned form prompt, the j-th example (text, value) of a
\* DateInput, Number or TextInput element E is the line "Input: text"
\* immediately followed by "Output: <E.id>value</E.id>", the examples of an
\* element stand in their order, the elements' examples stand in the order of
\* F.elements, and the only "Input:" line after all examples is the live
\* "Input: u" line.
C8_ExtractionExamples ==
    FormReturned =>
        LET es == element.elements
            ls == AfterTask(result.value)
            total == ExamplesBefore(es, Len(es) + 1)
        IN  /\ Len(ls) = 2 * total + 2
            /\ ls[2 * total + 1] = InputLine(user_input)
            /\ Cardinality({k \in 1..Len(ls) : IsInputLine(ls[k])}) = total + 1
            /\ \A i \in 1..Len(es) :
                  IsExtraction(es[i]) =>
                      \A j \in 1..Len(es[i].examples) :
                          LET k == 2 * (ExamplesBefore(es, i) + j) - 1
                          IN  /\ ls[k] = InputLine(es[i].examples[j][1])
                              /\ ls[k + 1] = TaggedLine(es[i].id, es[i].examples[j][2])
            /\ \A i \in 1..Len(es) :
                  IsExtraction(es[i]) =>
                      \A j \in 1..Len(es[i].examples) :
                          HasPair(Lines(result.value),
                                  InputLine(es[i].examples[j][1]),
                                  TaggedLine(es[i].id, es[i].examples[j][2]))

C8_Witness ==
    /\ FormReturned
    /\ Len(element.elements) >= 2
    /\ IsExtraction(element.elements[1]) /\ Len(element.elements[1].examples) >= 2
    /\ IsExtraction(element.elements[2]) /\ Len(element.elements[2].examples) >= 1
    /\ element.elements[1].kind # element.elements[2].kind

-----------------------------------------------------------------------------
(* C9 *)

\* the options that have at least one example, in option order
RECURSIVE WithExamples(_)
WithExamples(opts) ==
    IF Len(opts) = 0 THEN <<>>
    ELSE IF Len(opts[1].examples) = 0 THEN WithExamples(Tail(opts))
    ELSE <<opts[1]>> \o WithExamples(Tail(opts))

\* C9: the examples block of date_block(u, options) starts with the pair
\* "Input: blaheoiqwd" / "Output: <unsure>", then holds, for each option that
\* has an example and in option order, exactly one pair, made of the option's
\* first example and "Output: <id>"; then come "Input: u" and "Output:" with
\* a trailing newline.
C9_DateBlockExamples ==
    pc = "date_block" =>
        /\ result.status = "ok"
        /\ LET ls == NonBlank(Lines(result.value))
               n == Len(options)
               shown == WithExamples(options)
               m == Len(shown)
           IN  /\ Len(ls) = 2 + n + 2 + 2 * m + 2
               /\ ls[2] = <<"Options:">>
               /\ ls[n + 3] = InputLine("blaheoiqwd")
               /\ ls[n + 4] = <<"Output:", SP, "<unsure>">>
               /\ \A k \in 1..m :
                     /\ ls[n + 4 + 2 * k - 1] = InputLine(shown[k].examples[1])
                     /\ ls[n + 4 + 2 * k] = <<"Output:", SP, "<", shown[k].id, ">">>
               /\ ls[n + 4 + 2 * m + 1] = InputLine(user_input)
               /\ ls[n + 4 + 2 * m + 2] = <<"Output:">>
        /\ EndsWith(result.value, <<NL>> \o InputLine(user_input) \o <<NL, "Output:", NL>>)

C9_Witness ==
    /\ pc = "date_block"
    /\ Len(options) >= 2
    /\ \E i \in 1..Len(options) : Len(options[i].examples) >= 2
    /\ \E i \in 1..Len(options) : Len(options[i].examples) = 0

-----------------------------------------------------------------------------
(* C10 *)

\* C10: the selection prompt of a Selection whose options hold, at any
\* position, a value that is not an Option fails with the type-mismatch
\* failure (TypeError) and returns no prompt; with Options only it returns.
C10_NonOptionIsTypeError ==
    pc = "_generate_prompt_for_selection" =>
        /\ (\E i \in 1..Len(element.options) : element.options[i].kind # "Option")
              => (result.status = "TypeError" /\ result.value = <<>>)
        /\ (\A i \in 1..Len(element.options) : element.options[i].kind = "Option")
              => result.status = "ok"

====
